---- MODULE Spec2Model ----
(***************************************************************************)
(* Model of splunklib.searchcommands: the command lifecycle of             *)
(* SearchCommand.process (search_command.py) with the execution loops of   *)
(* StreamingCommand._execute (streaming_command.py) and                    *)
(* GeneratingCommand._execute (generating_command.py).                     *)
(*                                                                         *)
(* One behaviour of the model is one run of process(args, ifile, ofile).   *)
(* The host (what arrives on ifile) and the command variant (what the      *)
(* prepare/stream/generate overrides do) are the environment: their        *)
(* choices are made by \E at the step where the program observes them.     *)
(*                                                                         *)
(* The static methods _read_chunk, _write_chunk, _encode_list and          *)
(* _decode_list are operators; the specification Codec calls each of them  *)
(* once on arguments drawn from bounded sets.  The specification Writer    *)
(* follows one RecordWriter through the calls a test makes on it.          *)
(***************************************************************************)
EXTENDS Integers, Sequences, FiniteSets, TLC

\* ---------------------------------------------------------------- bounds
MaxArgs   == 2    \* longest handshake `args` list
MaxChunks == 2    \* execution chunks the host sends before it closes ifile
MaxLoops  == 2    \* iterations of GeneratingCommand._execute that are followed
MaxMsgs   == 1    \* write_debug/.../write_warning calls made by the variant
MaxRows   == 1    \* records produced by one call of generate()
MaxEntries == 2   \* entries of a metadata mapping passed to _write_chunk
MaxBytes  == 2    \* bytes of a body passed to _write_chunk
MaxItems  == 2    \* items of a list passed to _encode_list
MaxLen    == 2    \* characters of one item of such a list
MaxText   == 6    \* characters of a text passed to _decode_list
MaxRecords == 2   \* records yielded by stream() for one chunk
MaxResultRows == 2  \* largest maxresultrows a RecordWriter is constructed with
MaxWrites == 5    \* write_record calls made on one RecordWriter
MaxFlushes == 1   \* flush calls made on one RecordWriter

\* ------------------------------------------------------------- constants
NoCount == -1     \* self._message_count = None (search_command.py:82)

Severities == {"DEBUG", "ERROR", "FATAL", "INFO", "WARN"}

\* The write_* methods the variant is followed through: write_error shares
\* its key with the except clause of process, write_info with the message of
\* show_configuration, and write_warning stands for the three methods whose
\* key nothing else in process writes (write_debug, write_fatal,
\* write_warning differ in the message type only).
VariantSeverities == {"ERROR", "INFO", "WARN"}

\* Tokens of the handshake `args` list, as character sequences.  "f", "g" are
\* bare field names, "s" is the option show_configuration (value "t" is a
\* boolean, "x" is not), "b" is not a declared option.
Tokens ==
    { <<"f">>, <<"g">>,
      <<"s", "=", "t">>, <<"s", "=", "x">>,
      <<"b", "=", "1">> }

RECURSIVE SeqsUpTo(_, _)
SeqsUpTo(S, n) ==
    IF n = 0 THEN { <<>> }
    ELSE LET shorter == SeqsUpTo(S, n - 1)
         IN  shorter \cup { Append(q, x) : q \in {r \in shorter : Len(r) = n - 1}, x \in S }

ArgLists == SeqsUpTo(Tokens, MaxArgs)

\* ------------------------------------------------------- pure operations

\* A split that never cuts: every token is taken for a bare name.
SplitWhole(arg) == << arg >>

\* str.split('=', 1): <<name>> when the token has no '=', else <<name, value>>
\* cut at the first '='.
Split(arg) ==
    LET eqs == { i \in 1..Len(arg) : arg[i] = "=" }
    IN  IF eqs = {} THEN << arg >>
        ELSE LET k == CHOOSE i \in eqs : \A j \in eqs : i <= j
             IN  << SubSeq(arg, 1, k - 1), SubSeq(arg, k + 1, Len(arg)) >>

\* Option.View.__getitem__: the declared options of the command; any other
\* name raises KeyError.
DeclaredOptions == { <<"s">> }

\* Option value setter: the validator of the option accepts the value, or
\* raises ValueError and leaves the option unset.
ValidValue(name, value) == name = <<"s">> /\ value = <<"t">>

\* Option.View.get_missing: names of the required options without a value,
\* None (here the empty sequence) when there is none.  req is the set of the
\* options the command class declares with require=True.
GetMissing(opts, req) ==
    IF \E n \in req : opts[n] = << >>
    THEN << CHOOSE n \in req : opts[n] = << >> >>
    ELSE << >>

\* Message texts are records so that all inspector values compare.
Text(what, about) == [what |-> what, about |-> about]

\* The text of the k-th message the variant writes (all distinct).
VariantText(k) == Text("variant", [i \in 1..k |-> "m"])

EmptyInspector == << >>

\* SearchCommand._write_message: stores the text under the key
\* 'message.<_message_count>.<type>'; _message_count is read, never changed.
_write_message(insp, count, sev, text) ==
    LET key == << "message", count, sev >>
    IN  [k \in DOMAIN insp \cup {key} |-> IF k = key THEN text ELSE insp[k]]

\* The names and the value of the metrics the variant reports; the value
\* is a SearchMetric (elapsed seconds, invocations, input count, output
\* count).
MetricNames == {"x"}
SearchMetric == Text("metric", << "1", "1", "0", "0" >>)

\* SearchCommand.write_metric: stores the value under 'metric.<name>'.
write_metric(insp, name, value) ==
    LET key == << "metric", name >>
    IN  [k \in DOMAIN insp \cup {key} |-> IF k = key THEN value ELSE insp[k]]

\* One unit of stream content: a brace of a JSON text, one entry of a JSON
\* object (`of` holds the entry), or one byte of a body.
Byte(ch) == [ch |-> ch, of |-> << >>]
Entry(e) == [ch |-> "entry", of |-> e]

\* json.dumps of a mapping, given as the sequence of its entries.
JsonDumps(metadata) ==
    << Byte("{") >> \o [i \in 1..Len(metadata) |-> Entry(metadata[i])]
                   \o << Byte("}") >>

\* The slot of a key in the table of a small dict of CPython 2 (hash & 7,
\* hash randomization off): 'y' falls in slot 0 and 'x' in slot 1.  The
\* other keys of the model only stand in mappings of one entry, where the
\* slot decides nothing.
Slot(key) == IF key = "y" THEN 0 ELSE IF key = "x" THEN 1 ELSE 2

\* dict(pairs): the entries in the order in which the dict is iterated, by
\* slot and not by insertion.
RECURSIVE dict(_)
dict(pairs) ==
    IF Len(pairs) = 0 THEN << >>
    ELSE LET first == CHOOSE i \in 1..Len(pairs) :
                         \A j \in 1..Len(pairs) :
                            \/ Slot(pairs[i][1]) < Slot(pairs[j][1])
                            \/ Slot(pairs[i][1]) = Slot(pairs[j][1]) /\ i <= j
             rest  == [j \in 1..(Len(pairs) - 1) |->
                          IF j < first THEN pairs[j] ELSE pairs[j + 1]]
         IN  << pairs[first] >> \o dict(rest)

\* json.loads: the text must be a complete object, an opening brace, entries,
\* the closing brace; anything else (the empty text, a text cut short) raises
\* ValueError (ok = FALSE).  No object_pairs_hook is passed: the object
\* becomes a plain dict.
JsonLoads(text) ==
    LET n  == Len(text)
        ok == /\ n >= 2
              /\ text[1].ch = "{"
              /\ text[n].ch = "}"
              /\ \A i \in 2..(n - 1) : text[i].ch = "entry"
    IN  [ok |-> ok,
         value |-> IF ok THEN dict([i \in 1..(n - 2) |-> text[i + 1].of])
                         ELSE << >>]

\* Calls made on the output file object, in order.
WriteCall(part, data) == [op |-> "write", part |-> part, data |-> data]
FlushCall == [op |-> "flush", part |-> "flush", data |-> << >>]

\* A _write_chunk whose header holds the number of entries of the mapping in
\* place of the length of its serialized text.
_write_chunk_estimate(f, metadata, body_, raises) ==
    LET buffer == JsonDumps(metadata)
        header == [metadata_length |-> Len(metadata), body_length |-> Len(body_)]
    IN  [ofile  |-> f \o << WriteCall("header", header),
                            WriteCall("metadata", buffer),
                            WriteCall("body", body_), FlushCall >>,
         raised |-> FALSE]

\* SearchCommand._write_chunk(f, metadata, body).  A falsy metadata (None or
\* an empty mapping) leaves metadata_buffer = None, and f.write(None) follows
\* the header: a file object raises TypeError there (raises = TRUE), a stream
\* that ignores a None argument goes on.  The result is the calls made and
\* whether it raised.
_write_chunk(f, metadata, body, raises) ==
    LET hasBuffer == metadata # << >>
        buffer    == IF hasBuffer THEN JsonDumps(metadata) ELSE << >>
        header    == [metadata_length |-> IF hasBuffer THEN Len(buffer) ELSE 0,
                      body_length     |-> Len(body)]
        f1        == Append(f, WriteCall("header", header))
    IN  IF hasBuffer
        THEN [ofile  |-> f1 \o << WriteCall("metadata", buffer),
                                  WriteCall("body", body), FlushCall >>,
              raised |-> FALSE]
        ELSE IF raises
        THEN [ofile |-> f1, raised |-> TRUE]
        ELSE [ofile  |-> f1 \o << WriteCall("body", body), FlushCall >>,
              raised |-> FALSE]

Digit == << "0", "1", "2", "3", "4", "5", "6", "7", "8", "9" >>

\* '%d' % n for n >= 0: the decimal digits of n.
RECURSIVE Str(_)
Str(n) ==
    IF n < 10 THEN << Digit[n + 1] >>
    ELSE Append(Str(n \div 10), Digit[(n % 10) + 1])

\* The regular expression class \d+ : one digit or more.
IsDigits(text) ==
    /\ Len(text) > 0
    /\ \A i \in 1..Len(text) : \E d \in 1..10 : Digit[d] = text[i]

\* int(text) of a text of digits.
RECURSIVE int(_)
int(text) ==
    IF Len(text) = 0 THEN 0
    ELSE LET last == text[Len(text)]
             d    == CHOOSE k \in 1..10 : Digit[k] = last
         IN  10 * int(SubSeq(text, 1, Len(text) - 1)) + (d - 1)

\* The header line _write_chunk formats (line 588): the text up to the first
\* comma, as the word `chunked` and the characters after it, the two numbers
\* as texts, and whether a newline ends the line.
HeaderLine(metadata_length, body_length) ==
    [magic           |-> << "chunked", " ", "1", ".", "0" >>,
     metadata_length |-> Str(metadata_length),
     body_length     |-> Str(body_length),
     newline         |-> TRUE]

\* The regular expression class \s, and how many characters of it stand at
\* the start of a text.
IsSpace(c) == c = " "

RECURSIVE Spaces(_)
Spaces(text) ==
    IF Len(text) > 0 /\ IsSpace(Head(text)) THEN 1 + Spaces(Tail(text)) ELSE 0

\* The text that a group (?P<...>\d+) between two \s* takes from a field.
Group(text) ==
    LET lead  == Spaces(text)
        trail == Spaces([i \in 1..Len(text) |-> text[Len(text) + 1 - i]])
    IN  SubSeq(text, lead + 1, Len(text) - trail)

\* re.match of line 555 on a header line, the pattern
\* chunked\s+1.0\s*,\s*(\d+)\s*,\s*(\d+)\s*\n : after `chunked` one
\* whitespace or more, `1`, any one character (the dot is not escaped), `0`,
\* whitespace; each number with whitespace around it; the newline.
Match(header) ==
    LET m == header.magic
        w == Spaces(Tail(m))
    IN  /\ Len(m) >= 1
        /\ m[1] = "chunked"
        /\ w >= 1
        /\ Len(m) >= w + 4
        /\ m[w + 2] = "1"
        /\ m[w + 3] # "\n"
        /\ m[w + 4] = "0"
        /\ \A i \in (w + 5)..Len(m) : IsSpace(m[i])
        /\ IsDigits(Group(header.metadata_length))
        /\ IsDigits(Group(header.body_length))
        /\ header.newline

\* f.read(n): the next n bytes, or all that are left when fewer are.
Read(buffer, n) == SubSeq(buffer, 1, IF n < Len(buffer) THEN n ELSE Len(buffer))

\* The result None of _read_chunk, and a result [metadata, body].
NoChunk == [none |-> TRUE, metadata |-> << >>, body |-> << >>]
Chunk(metadata, body) == [none |-> FALSE, metadata |-> metadata, body |-> body]

\* SearchCommand._read_chunk(f).  f is what the input stream holds: whether
\* reading it raises, the next line (none at end of input) and the bytes that
\* follow the line.
_read_chunk(f) ==
    IF f.raises THEN NoChunk
    ELSE IF f.line = << >> THEN NoChunk
    ELSE LET header == f.line[1]
         IN  IF ~Match(header) THEN NoChunk
             ELSE LET metadata_length == int(Group(header.metadata_length))
                      body_length     == int(Group(header.body_length))
                      metadata_buffer == Read(f.rest, metadata_length)
                      left            == SubSeq(f.rest, Len(metadata_buffer) + 1,
                                                Len(f.rest))
                      body_           == Read(left, body_length)
                      loaded          == JsonLoads(metadata_buffer)
                  IN  IF ~loaded.ok THEN NoChunk
                      ELSE Chunk(loaded.value, body_)

\* A text or None, a list or None.
NoText == [none |-> TRUE, text |-> << >>]
SomeText(text) == [none |-> FALSE, text |-> text]
NoList == [none |-> TRUE, list |-> << >>]
SomeList(l) == [none |-> FALSE, list |-> l]

\* The while loop of _decode_list (lines 456-472) from index i on; i counts
\* from 1.
RECURSIVE DecodeLoop(_, _, _, _, _)
DecodeLoop(mv, i, in_value, value, l) ==
    IF i > Len(mv) THEN SomeList(l)
    ELSE IF ~in_value
    THEN IF mv[i] = "$" THEN DecodeLoop(mv, i + 1, TRUE, value, l)
         ELSE IF mv[i] # ";" THEN NoList
         ELSE DecodeLoop(mv, i + 1, FALSE, value, l)
    ELSE IF mv[i] = "$" /\ i + 1 <= Len(mv) /\ mv[i + 1] = "$"
         THEN DecodeLoop(mv, i + 2, TRUE, Append(value, "$"), l)
         ELSE IF mv[i] = "$"
         THEN DecodeLoop(mv, i + 1, FALSE, << >>, Append(l, value))
         ELSE DecodeLoop(mv, i + 1, TRUE, Append(value, mv[i]), l)

\* SearchCommand._decode_list(mv).
_decode_list(mv) ==
    IF Len(mv) = 0 THEN NoList ELSE DecodeLoop(mv, 1, FALSE, << >>, << >>)

\* One subscription mv[at] of the loop: of the character of the iteration, or
\* of the one after it (`ahead`, line 464).
Subscript(at, ahead) == [at |-> at, ahead |-> ahead]

\* A loop that looks at mv[i + 1] without the test i + 1 < len(mv).
RECURSIVE DecodeReadsUnguarded(_, _, _)
DecodeReadsUnguarded(mv, i, in_value) ==
    IF i > Len(mv) THEN << >>
    ELSE IF ~in_value
    THEN IF mv[i] = "$" THEN << Subscript(i, FALSE) >> \o DecodeReadsUnguarded(mv, i + 1, TRUE)
         ELSE IF mv[i] # ";" THEN << Subscript(i, FALSE) >>
         ELSE << Subscript(i, FALSE) >> \o DecodeReadsUnguarded(mv, i + 1, FALSE)
    ELSE IF mv[i] = "$"
         THEN IF i + 1 > Len(mv) THEN << Subscript(i, FALSE), Subscript(i + 1, TRUE) >>
              ELSE IF mv[i + 1] = "$"
              THEN << Subscript(i, FALSE), Subscript(i + 1, TRUE) >>
                       \o DecodeReadsUnguarded(mv, i + 2, TRUE)
              ELSE << Subscript(i, FALSE), Subscript(i + 1, TRUE) >>
                       \o DecodeReadsUnguarded(mv, i + 1, FALSE)
         ELSE << Subscript(i, FALSE) >> \o DecodeReadsUnguarded(mv, i + 1, TRUE)

\* The subscriptions the while loop of _decode_list (lines 456-472) makes
\* from index i on, in order: mv[i] in every iteration, and mv[i + 1] when
\* mv[i] is a `$` inside a value and i + 1 < len(mv).  A subscription past
\* the end of mv would raise IndexError.
RECURSIVE DecodeReads(_, _, _)
DecodeReads(mv, i, in_value) ==
    IF i > Len(mv) THEN << >>
    ELSE IF ~in_value
    THEN IF mv[i] = "$" THEN << Subscript(i, FALSE) >> \o DecodeReads(mv, i + 1, TRUE)
         ELSE IF mv[i] # ";" THEN << Subscript(i, FALSE) >>
         ELSE << Subscript(i, FALSE) >> \o DecodeReads(mv, i + 1, FALSE)
    ELSE IF mv[i] = "$" /\ i + 1 <= Len(mv)
         THEN IF mv[i + 1] = "$"
              THEN << Subscript(i, FALSE), Subscript(i + 1, TRUE) >>
                       \o DecodeReads(mv, i + 2, TRUE)
              ELSE << Subscript(i, FALSE), Subscript(i + 1, TRUE) >>
                       \o DecodeReads(mv, i + 1, FALSE)
         ELSE << Subscript(i, FALSE) >>
                  \o DecodeReads(mv, i + 1, IF mv[i] = "$" THEN FALSE ELSE TRUE)

\* to_string of an item that is a string: unicode(item), the same characters.
to_string(item) == [i \in 1..Len(item) |-> item[i]]

\* item.replace('$', '$$')
RECURSIVE Replace(_)
Replace(item) ==
    IF Len(item) = 0 THEN << >>
    ELSE (IF Head(item) = "$" THEN << "$", "$" >> ELSE << Head(item) >>)
             \o Replace(Tail(item))

\* sep.join(items)
RECURSIVE Join(_, _)
Join(sep, items) ==
    IF Len(items) = 0 THEN << >>
    ELSE IF Len(items) = 1 THEN items[1]
    ELSE items[1] \o sep \o Join(sep, Tail(items))

\* Running an iterator to its end: the items it produced and the iterator
\* as it is left, with nothing more to produce.
Exhaust(iterator) ==
    [produced |-> iterator,
     left     |-> SubSeq(iterator, Len(iterator) + 1, Len(iterator))]

\* An _encode_list that gives the companion text of a single item too.
_encode_list_wrapping(value) ==
    IF Len(value) = 0 THEN [base |-> NoText, mv |-> NoText]
    ELSE [base |-> SomeText(Join(<< "\n" >>,
                      [i \in 1..Len(value) |-> to_string(value[i])])),
          mv   |-> SomeText(<< "$" >>
                      \o Join(<< "$", ";", "$" >>,
                            [i \in 1..Len(value) |-> Replace(to_string(value[i]))])
                      \o << "$" >>)]

\* SearchCommand._encode_list(value).  For two items or more, line 493 binds
\* `value` to one imap object of pairs (item, escaped item); line 495 joins
\* over it twice, first for the base text, then for the companion text: the
\* second join iterates what the first has left.
_encode_list(value) ==
    IF Len(value) = 0 THEN [base |-> NoText, mv |-> NoText]
    ELSE IF Len(value) = 1
    THEN [base |-> SomeText(to_string(value[1])), mv |-> NoText]
    ELSE LET pairs  == [i \in 1..Len(value) |->
                          << to_string(value[i]), Replace(to_string(value[i])) >>]
             first  == Exhaust(pairs)
             second == Exhaust(first.left)
         IN  [base |-> SomeText(Join(<< "\n" >>,
                          [i \in 1..Len(first.produced) |-> first.produced[i][1]])),
              mv   |-> SomeText(<< "$" >>
                          \o Join(<< "$", ";", "$" >>,
                                [i \in 1..Len(second.produced) |-> second.produced[i][2]])
                          \o << "$" >>)]

\* ---------------------------------------------------------- records

\* The companion text of a list by the grammar of the record codec: every
\* item between two `$`, a `$` of the item doubled, one `;` between items;
\* and the base text, the items joined by a newline.
RECURSIVE Doubled(_)
Doubled(item) ==
    IF Len(item) = 0 THEN << >>
    ELSE IF Head(item) = "$" THEN << "$", "$" >> \o Doubled(Tail(item))
    ELSE << Head(item) >> \o Doubled(Tail(item))

RECURSIVE Wrapped(_)
Wrapped(value) ==
    IF Len(value) = 0 THEN << >>
    ELSE << "$" >> \o Doubled(Head(value)) \o << "$" >>
             \o (IF Len(value) = 1 THEN << >> ELSE << ";" >> \o Wrapped(Tail(value)))

RECURSIVE Lines(_)
Lines(value) ==
    IF Len(value) = 1 THEN Head(value)
    ELSE Head(value) \o << "\n" >> \o Lines(Tail(value))

\* A column name, 'name' or '__mv_name'.
Column(mv, name) == [mv |-> mv, name |-> name]

\* A value of a field: one text, a list of texts, or None.
Scalar(text) == [list |-> FALSE, items |-> << text >>]
List(items) == [list |-> TRUE, items |-> items]
Absent == [list |-> FALSE, items |-> << >>]

\* self._encode_value(value): the base cell and the companion cell of a value.
_encode_value(value) ==
    IF ~value.list
    THEN << IF Len(value.items) = 0 THEN NoText ELSE SomeText(value.items[1]),
            NoText >>
    ELSE IF Len(value.items) = 0 THEN << NoText, NoText >>
    ELSE IF Len(value.items) = 1 THEN << SomeText(value.items[1]), NoText >>
    ELSE << SomeText(Lines(value.items)), SomeText(Wrapped(value.items)) >>

\* chain.from_iterable over a sequence of pairs.
RECURSIVE Chain(_)
Chain(pairs) ==
    IF Len(pairs) = 0 THEN << >>
    ELSE << Head(pairs)[1], Head(pairs)[2] >> \o Chain(Tail(pairs))

\* csv.writer.writerow then csv.reader on the line: every cell comes back as
\* a text, None as the empty text.
CsvRow(cells) ==
    [i \in 1..Len(cells) |-> IF cells[i].none THEN << >> ELSE cells[i].text]

\* Lines 108-113 of StreamingCommand._execute for one record, a sequence of
\* <<column, value>>: the row of keys, each key followed by its companion
\* column, and the row of values.
EncodeRecord(record) ==
    LET keys   == Chain([i \in 1..Len(record) |->
                          << record[i][1], Column(TRUE, record[i][1].name) >>])
        values == Chain([i \in 1..Len(record) |-> _encode_value(record[i][2])])
    IN  << keys, CsvRow(values) >>

\* Lines 104-114 of StreamingCommand._execute for the records stream()
\* yields for one chunk: the row of keys is written at the first record, then
\* one row of values per record, each from the keys of that record.
WriteRecords(records) ==
    IF Len(records) = 0 THEN << >>
    ELSE << EncodeRecord(records[1])[1] >>
             \o [k \in 1..Len(records) |-> EncodeRecord(records[k])[2]]

\* izip(a, b): pairs up to the end of the shorter sequence.
izip(a, b) ==
    [i \in 1..(IF Len(a) < Len(b) THEN Len(a) ELSE Len(b)) |-> << a[i], b[i] >>]

\* SearchCommand._records(reader): reader is the sequence of the rows of a
\* chunk body, the first row the column names.  With a companion column
\* among them each row is turned into a new OrderedDict `record` that the
\* loop of line 528 pairs with the column names: it is empty, so the loop
\* body (which stores into `values`, a list, under a text key) never runs
\* and the record is yielded empty.
_records(reader) ==
    IF Len(reader) = 0 THEN [raised |-> FALSE, records |-> << >>]
    ELSE LET fieldnames    == Head(reader)
             mv_fieldnames == { fieldnames[i].name[1] :
                                  i \in { j \in 1..Len(fieldnames) : fieldnames[j].mv } }
             rows          == Tail(reader)
             record        == << >>
         IN  IF mv_fieldnames # {}
             THEN IF Len(rows) > 0 /\ Len(izip(fieldnames, record)) > 0
                  THEN [raised |-> TRUE, records |-> << >>]
                  ELSE [raised |-> FALSE, records |-> [k \in 1..Len(rows) |-> record]]
             ELSE [raised  |-> FALSE,
                   records |-> [k \in 1..Len(rows) |->
                                  LET pairs == izip(fieldnames, rows[k])
                                  IN  [i \in 1..Len(pairs) |->
                                         << pairs[i][1], Scalar(pairs[i][2]) >>]]]

\* ------------------------------------------------------ RecordWriter
\* The class is used by the tests of the package (test_internals_v2.py,
\* lines 156-222) and is described in section 4.4 of the specification.

\* One chunk on the stream of a RecordWriter: the inspector and the
\* `finished` flag of its metadata ("unset" when it carries none), and the
\* buffered rows.
WriterChunk(insp, fin, rows) == [inspector |-> insp, finished |-> fin, rows |-> rows]

\* The writer before RecordWriter(ofile, maxresultrows) is called.
NoWriter ==
    [state |-> "none", maxresultrows |-> 0, ofile |-> << >>, closed |-> FALSE,
     buffer |-> << >>, record_count |-> 0, total_record_count |-> 0,
     chunk_count |-> 0, fieldnames |-> NoList, inspector |-> EmptyInspector,
     message_count |-> 0]

\* RecordWriter(ofile, maxresultrows) on an empty stream: state is "open"
\* until flush(finished=True) makes it "closed"; `closed` is ofile.closed.
RecordWriter(maxresultrows) ==
    [NoWriter EXCEPT !.state = "open", !.maxresultrows = maxresultrows]

\* The result of a call: the writer after it and whether it raised
\* RuntimeError.
Returned(w) == [self |-> w, raised |-> FALSE]
RuntimeError(w) == [self |-> w, raised |-> TRUE]

\* A partial flush that consumes the inspector without writing it.
PartialFlushConsuming(w) ==
    [w EXCEPT !.ofile = Append(@, WriterChunk(EmptyInspector, "unset", w.buffer)),
              !.chunk_count = @ + 1,
              !.total_record_count = @ + w.record_count,
              !.record_count = 0,
              !.buffer = << >>,
              !.fieldnames = NoList,
              !.inspector = EmptyInspector]

\* The automatic partial flush: the buffered rows are written as one chunk
\* with `finished` unset; the row buffer and the fixed column set are reset,
\* the inspector is carried forward.
PartialFlush(w) ==
    [w EXCEPT !.ofile = Append(@, WriterChunk(EmptyInspector, "unset", w.buffer)),
              !.chunk_count = @ + 1,
              !.total_record_count = @ + w.record_count,
              !.record_count = 0,
              !.buffer = << >>,
              !.fieldnames = NoList]

\* The row of a record under the fixed columns: the value of each column,
\* Absent where the record has none.
Row(names, record) ==
    [c \in 1..Len(names) |->
        IF \E i \in 1..Len(record) : record[i][1] = names[c]
        THEN record[CHOOSE i \in 1..Len(record) : record[i][1] = names[c]][2]
        ELSE Absent]

\* A write_record that flushes only when the buffer has gone past the
\* threshold.
write_record_late(w, record) ==
    IF w.state = "closed" THEN RuntimeError(w)
    ELSE LET names == IF w.fieldnames.none
                      THEN SomeList([i \in 1..Len(record) |-> record[i][1]])
                      ELSE w.fieldnames
             w1    == [w EXCEPT !.fieldnames = names,
                                !.buffer = Append(@, Row(names.list, record)),
                                !.record_count = @ + 1]
         IN  Returned(IF w1.record_count > w1.maxresultrows
                      THEN PartialFlush(w1) ELSE w1)

\* RecordWriter.write_record(record): the first call since the last flush
\* captures the fixed columns; the row is buffered; when the buffered row
\* count reaches maxresultrows the partial flush follows.  After Closed the
\* call raises and changes nothing.
write_record(w, record) ==
    IF w.state = "closed" THEN RuntimeError(w)
    ELSE LET names == IF w.fieldnames.none
                      THEN SomeList([i \in 1..Len(record) |-> record[i][1]])
                      ELSE w.fieldnames
             w1    == [w EXCEPT !.fieldnames = names,
                                !.buffer = Append(@, Row(names.list, record)),
                                !.record_count = @ + 1]
         IN  Returned(IF w1.record_count >= w1.maxresultrows
                      THEN PartialFlush(w1) ELSE w1)

\* A flush that does not look at the state of the writer.
flush_unchecked(w, fin) ==
    Returned([w EXCEPT
        !.ofile = Append(@, WriterChunk(w.inspector,
                                        IF fin THEN "true" ELSE "false",
                                        w.buffer)),
        !.chunk_count = @ + 1,
        !.total_record_count = @ + w.record_count,
        !.record_count = 0,
        !.buffer = << >>,
        !.fieldnames = NoList,
        !.inspector = EmptyInspector,
        !.state = IF fin THEN "closed" ELSE @])

\* A flush that leaves the fixed columns in place.
flush_keeping(w, fin) ==
    IF w.state = "closed" THEN RuntimeError(w)
    ELSE Returned([w EXCEPT
        !.ofile = Append(@, WriterChunk(w.inspector,
                                        IF fin THEN "true" ELSE "false",
                                        w.buffer)),
        !.chunk_count = @ + 1,
        !.total_record_count = @ + w.record_count,
        !.record_count = 0,
        !.buffer = << >>,
        !.inspector = EmptyInspector,
        !.state = IF fin THEN "closed" ELSE @])

\* RecordWriter.flush(finished): whatever is buffered is written as one
\* chunk with the inspector as its metadata; then the buffer, the fixed
\* columns and the inspector are reset; finished=True closes the writer.
\* After Closed the call raises and changes nothing.  ofile is never closed.
flush(w, fin) ==
    IF w.state = "closed" THEN RuntimeError(w)
    ELSE Returned([w EXCEPT
        !.ofile = Append(@, WriterChunk(w.inspector,
                                        IF fin THEN "true" ELSE "false",
                                        w.buffer)),
        !.chunk_count = @ + 1,
        !.total_record_count = @ + w.record_count,
        !.record_count = 0,
        !.buffer = << >>,
        !.fieldnames = NoList,
        !.inspector = EmptyInspector,
        !.state = IF fin THEN "closed" ELSE @])

\* RecordWriter.write_message(message_type, message_text): the text is
\* stored under the next sequence number of the writer.
write_message(w, sev, text) ==
    Returned([w EXCEPT
        !.inspector = _write_message(@, w.message_count, sev, text),
        !.message_count = @ + 1])

\* RecordWriter.write_metric(name, value) on the inspector of the writer.
Writer_write_metric(w, name, value) ==
    Returned([w EXCEPT !.inspector = write_metric(@, name, value)])

\* The k-th record of the test (lines 166-167), reduced to its serial number.
TestRecord(k) == << << "_serial", Str(k) >> >>

\* ------------------------------------------------- what the host sends

\* A frame as a conforming host writes it.
Frame(metadata, body_) ==
    [raises |-> FALSE,
     line   |-> << HeaderLine(Len(JsonDumps(metadata)), Len(body_)) >>,
     rest   |-> JsonDumps(metadata) \o body_]

\* The input is closed: readline returns ''.
EndOfInput == [raises |-> FALSE, line |-> << >>, rest |-> << >>]

\* Reading the input raises.
Unreadable == [raises |-> TRUE, line |-> << >>, rest |-> << >>]

\* A line that is not a header.
JunkHeader ==
    [raises |-> FALSE,
     line   |-> << [magic |-> << "junk" >>, metadata_length |-> << >>,
                    body_length |-> << >>, newline |-> TRUE] >>,
     rest   |-> << >>]

\* A stream that ends one byte before the end of its frame.
CutShort(f) == [f EXCEPT !.rest = SubSeq(f.rest, 1, Len(f.rest) - 1)]

\* A frame with no metadata segment: 'chunked 1.0,0,<n>' and the body.
BodyOnly(body_) ==
    [raises |-> FALSE, line |-> << HeaderLine(0, Len(body_)) >>, rest |-> body_]

\* What the host may hold out instead of a frame: the end of the input, or
\* a stream on which no frame can be read.
NoFrames ==
    { EndOfInput, Unreadable, JunkHeader,
      CutShort(Frame(<< <<"args", << >> >> >>, << >>)) }

\* A frame with a body and no metadata segment.
NoMetadata == BodyOnly(<< Byte("r") >>)

\* The handshake chunk: metadata {"args": [...]} and no body.
HandshakeStreams ==
    { Frame(<< <<"args", a>> >>, << >>) : a \in ArgLists }
        \cup NoFrames \cup { NoMetadata }

\* An execution chunk, metadata and one record, or no frame.
ExecStreams ==
    { Frame(<< <<"action", "execute">> >>, << Byte("r") >>),
      EndOfInput, JunkHeader,
      CutShort(Frame(<< <<"action", "execute">> >>, << >>)) }

\* ------------------------------- arguments of the static methods

\* Every stream that holds the first k bytes of what f holds after its line.
Truncations(f) ==
    { [f EXCEPT !.rest = SubSeq(f.rest, 1, k)] : k \in 0..Len(f.rest) }

\* The stream f with a line that ends without a newline.
Unterminated(f) ==
    [f EXCEPT !.line = << [f.line[1] EXCEPT !.newline = FALSE] >>]

\* Mappings with the entries "x": [] and "y": [], in either order.
Metadatas ==
    { md \in SeqsUpTo({ <<"x", << >> >>, <<"y", << >> >> }, MaxEntries) :
        \A i, j \in 1..Len(md) : md[i][1] = md[j][1] => i = j }

Bodies == SeqsUpTo({Byte("r")}, MaxBytes)

\* Header lines that depart from the line _write_chunk formats in one
\* place: another character for the dot of the version, another version,
\* whitespace doubled, added or left out, another word; and lengths with
\* whitespace before or after the digits, or with no digit.
Magics ==
    { << "chunked", " ", "1", "x", "0" >>,
      << "chunked", " ", "2", ".", "0" >>,
      << "chunked", " ", " ", "1", ".", "0" >>,
      << "chunked", " ", "1", ".", "0", " " >>,
      << "chunked", "1", ".", "0" >>,
      << "chunk", " ", "1", ".", "0" >> }

Deviations(f) ==
    { [f EXCEPT !.line = << [f.line[1] EXCEPT !.magic = m] >>] : m \in Magics }
        \cup { [f EXCEPT !.line = << [f.line[1] EXCEPT
                                        !.metadata_length = << " " >> \o @] >>],
               [f EXCEPT !.line = << [f.line[1] EXCEPT
                                        !.body_length = @ \o << " " >>] >>],
               [f EXCEPT !.line = << [f.line[1] EXCEPT
                                        !.body_length = << >>] >>] }

Streams ==
    NoFrames
        \cup UNION { Deviations(Frame(md, << >>)) : md \in Metadatas }
        \cup { BodyOnly(b) : b \in Bodies }
        \cup { Unterminated(Frame(md, b)) : md \in Metadatas, b \in Bodies }
        \cup UNION { Truncations(Frame(md, b)) : md \in Metadatas, b \in Bodies }

Alphabet == {"a", "$", ";"}

Items == SeqsUpTo(Alphabet, MaxLen)

Lists == SeqsUpTo(Items, MaxItems)

Texts == SeqsUpTo(Alphabet, MaxText)

\* Texts of cells, values of fields, and records of at most two fields.
Cells == { << >>, << "a" >>, << "b", "$" >> }

Values ==
    { Scalar(t) : t \in Cells } \cup { List(l) : l \in SeqsUpTo(Cells, MaxItems) }

FieldNames == { << "f" >>, << "g" >> }

Records ==
    { << >> }
        \cup { << << Column(FALSE, n), v >> >> : n \in FieldNames, v \in Values }
        \cup { << << Column(FALSE, n[1]), v1 >>, << Column(FALSE, n[2]), v2 >> >> :
                 n \in { m \in FieldNames \X FieldNames : m[1] # m[2] },
                 v1 \in Values, v2 \in Values }

\* Records of scalars, and what stream() may yield for one chunk.
PlainRecords == { r \in Records : \A i \in 1..Len(r) : r[i][2] = Scalar(<< "a" >>) }

Batches == SeqsUpTo(PlainRecords, MaxRecords)

\* The rows of chunk bodies handed to _records: no row at all, or a row of
\* column names, without or with a companion column, and rows of as many
\* cells.
Headers ==
    { << Column(FALSE, << "f" >>) >>,
      << Column(FALSE, << "f" >>), Column(FALSE, << "g" >>) >>,
      << Column(FALSE, << "f" >>), Column(TRUE, << "f" >>) >> }

RowsOf(header) == [1..Len(header) -> { << >>, << "a" >> }]

Readers ==
    { << >> }
        \cup UNION { { << h >> \o rows : rows \in SeqsUpTo(RowsOf(h), MaxRecords) } :
                       h \in Headers }

\* The test before line 156: no writer, no call made.
NotConstructed ==
    [self |-> NoWriter, writes |-> 0, flushes |-> 0, messages |-> 0,
     written |-> {}]

NoCall == [op |-> "none"]

\* Python values assigned to a setting, written as str() writes them: the
\* two booleans, None, a number, and texts.
PyValues == {"True", "False", "None", "1", "log", "none", "x"}

IsBool(value) == value \in {"True", "False"}

\* An attribute the instance does not have.
NoAttribute == "no attribute"

\* ConfigurationSettings.__init__ (lines 604-606): _finished is set; _partial
\* and _stderr_dest exist on the class only (lines 668 and 694).
ConfigurationSettings ==
    [_finished |-> "False", _partial |-> NoAttribute, _stderr_dest |-> NoAttribute]

\* getattr(self, name, default) of lines 660 and 686.
getattr(self, name, default) ==
    IF self[name] = NoAttribute THEN default ELSE self[name]

\* The getters of lines 626-633, 640-660 and 670-686.
get_finished(self) == self._finished
get_partial(self) == getattr(self, "_partial", "False")
get_stderr_dest(self) == getattr(self, "_stderr_dest", "log")

\* A setter that stores the value before it examines it.
finished_setter_storing(self, value) ==
    [raised |-> ~IsBool(value), self |-> [self EXCEPT !._finished = value]]

\* @finished.setter, lines 635-638.
finished_setter(self, value) ==
    IF ~IsBool(value) THEN [raised |-> TRUE, self |-> self]
    ELSE [raised |-> FALSE, self |-> [self EXCEPT !._finished = value]]

\* @partial.setter, lines 662-666: the value is stored in _stderr_dest.
partial_setter(self, value) ==
    IF ~IsBool(value) THEN [raised |-> TRUE, self |-> self]
    ELSE [raised |-> FALSE, self |-> [self EXCEPT !._stderr_dest = value]]

\* @stderr_dest.setter, lines 688-692.
stderr_dest_setter(self, value) ==
    IF value \notin {"log", "none"} THEN [raised |-> TRUE, self |-> self]
    ELSE [raised |-> FALSE, self |-> [self EXCEPT !._stderr_dest = value]]

\* ConfigurationSettings.iteritems: the settings of the variant in the order
\* of the sorted keys.
StreamingSettings(self) ==
    << <<"distributed", "False">>, <<"finished", get_finished(self)>>,
       <<"generating", "False">>, <<"maxinputs", "None">>,
       <<"partial", get_partial(self)>>, <<"required_fields", "None">>,
       <<"run_in_preview", "None">>, <<"stderr_dest", get_stderr_dest(self)>>,
       <<"type", "streaming">> >>

GeneratingSettings(self) ==
    << <<"finished", get_finished(self)>>, <<"partial", get_partial(self)>>,
       <<"stderr_dest", get_stderr_dest(self)>>, <<"type", "True">> >>

iteritems(self, k) ==
    IF k = "streaming" THEN StreamingSettings(self) ELSE GeneratingSettings(self)

\* The text write_error receives in the except clause of process: format()
\* finds no replacement field in the %-style template and returns it as is.
FaultText == Text("%s at \"%s\", line %d : %s", << >>)

\* ------------------------------------------------------------------ state
VARIABLES
    kind,           \* command variant: "streaming" or "generating"
    lenient,        \* TRUE once ofile.write(None) has returned without raising
    finished,       \* attribute `finished` of the command, "unset" until the
                    \* variant assigns it or _execute reads it
    pc,             \* position in process / _execute
    metadata,       \* `args` of the handshake chunk
    argi,           \* index of the next token of the for loop over args
    fieldnames,     \* self.fieldnames
    options,        \* value of each declared option, <<>> when unset
    message_count,  \* self._message_count
    inspector,      \* self._inspector
    ofile,          \* calls made on the output stream
    body,           \* rows in the output buffer of the current iteration
    nchunks,        \* execution chunks the host has sent
    nloops,         \* iterations of the generating loop started
    nmsgs,          \* write_* calls made by the variant
    ncalls,         \* _write_message calls since the inspector was last empty
    herrors,        \* write_error calls made by the handshake (lines 329-345)
    fault,          \* what raised, "none" while nothing did
    trace,          \* history of the I/O events of the run
    exit_status,    \* -1 while running, else the status of the process
    ifile,          \* what stood on the input stream at the last _read_chunk
    call,           \* the last direct call of a method, with its result
    writer,         \* the RecordWriter of the test and the calls made on it
    configuration   \* the ConfigurationSettings of the command

vars == << kind, lenient, finished, pc, metadata, argi, fieldnames,
           options, message_count, inspector, ofile, body, nchunks, nloops,
           nmsgs, ncalls, herrors, fault, trace, exit_status, ifile, call,
           writer, configuration >>

env == << kind, lenient >>

Running == -1

Init ==
    /\ kind \in {"streaming", "generating"}
    /\ lenient = FALSE
    /\ finished = "unset"
    /\ pc = "start"
    /\ metadata = << >>
    /\ argi = 1
    /\ fieldnames = << >>
    /\ options = [n \in DeclaredOptions |-> << >>]
    /\ message_count = NoCount
    /\ inspector = EmptyInspector
    /\ ofile = << >>
    /\ body = << >>
    /\ nchunks = 0
    /\ nloops = 0
    /\ nmsgs = 0
    /\ ncalls = 0
    /\ herrors = 0
    /\ fault = "none"
    /\ trace = << >>
    /\ exit_status = Running
    /\ ifile = EndOfInput
    /\ call = NoCall
    /\ writer = NotConstructed
    /\ configuration = ConfigurationSettings

\* An except clause that swallows the fault: nothing recorded, status 0.
ExceptClauseSilent(what) ==
    /\ fault' = what
    /\ exit_status' = 0
    /\ pc' = "done"
    /\ UNCHANGED << inspector, ncalls >>

\* The bare `except:` clause of process (lines 370-389): one write_error,
\* then exit(1).  Nothing is written to ofile.
ExceptClause(what) ==
    /\ inspector' = _write_message(inspector, message_count, "ERROR", FaultText)
    /\ ncalls' = ncalls + 1
    /\ fault' = what
    /\ exit_status' = 1
    /\ pc' = "done"

\* ------------------------------------------------- SearchCommand.process

\* A handshake that takes a None result for a chunk without arguments.
ReadHandshakeLenient ==
    /\ pc = "start"
    /\ \E f \in HandshakeStreams :
       LET result == _read_chunk(f)
       IN  /\ ifile' = f
           /\ metadata' = IF result.none THEN << >> ELSE result.metadata[1][2]
           /\ trace' = Append(trace, IF result.none THEN "read_none"
                                                     ELSE "read_chunk")
    /\ fieldnames' = << >>
    /\ options' = [n \in DeclaredOptions |-> << >>]
    /\ message_count' = 0
    /\ argi' = 1
    /\ pc' = "args"
    /\ UNCHANGED << env, call, writer, configuration, herrors, finished, ofile, body, nchunks, nloops,
                    nmsgs, inspector, ncalls, fault, exit_status >>

\* Lines 314-317: the handshake chunk is read.  _read_chunk returns None at
\* end of input and for a frame it cannot parse; unpacking None raises
\* TypeError inside the try block.
ReadHandshake ==
    /\ pc = "start"
    /\ \E f \in HandshakeStreams :
       LET result == _read_chunk(f)
       IN  /\ ifile' = f
           /\ IF result.none
              THEN /\ ExceptClause("handshake")
                   /\ trace' = Append(trace, "read_none")
                   /\ UNCHANGED << metadata, argi, fieldnames, options,
                                   message_count >>
              ELSE /\ metadata' = result.metadata[1][2]
                   /\ fieldnames' = << >>
                   /\ options' = [n \in DeclaredOptions |-> << >>]
                   /\ message_count' = 0
                   /\ argi' = 1
                   /\ pc' = "args"
                   /\ trace' = Append(trace, "read_chunk")
                   /\ UNCHANGED << inspector, ncalls, fault, exit_status >>
    /\ UNCHANGED << env, call, writer, configuration, herrors, finished, ofile, body, nchunks, nloops, nmsgs >>

\* Lines 320-336: one iteration of the for loop over metadata['args'].
ProcessArg ==
    /\ pc = "args"
    /\ argi <= Len(metadata)
    /\ LET result == Split(metadata[argi])
       IN  IF Len(result) = 1
           THEN /\ fieldnames' = Append(fieldnames, result[1])
                /\ UNCHANGED << options, inspector, ncalls, herrors >>
           ELSE IF result[1] \notin DeclaredOptions
           THEN /\ inspector' = _write_message(inspector, message_count, "ERROR",
                                    Text("Unrecognized option", metadata[argi]))
                /\ ncalls' = ncalls + 1
                /\ herrors' = herrors + 1
                /\ UNCHANGED << fieldnames, options >>
           ELSE IF ~ValidValue(result[1], result[2])
           THEN /\ inspector' = _write_message(inspector, message_count, "ERROR",
                                    Text("Illegal value", result[1]))
                /\ ncalls' = ncalls + 1
                /\ herrors' = herrors + 1
                /\ UNCHANGED << fieldnames, options >>
           ELSE /\ options' = [options EXCEPT ![result[1]] = result[2]]
                /\ UNCHANGED << fieldnames, inspector, ncalls, herrors >>
    /\ argi' = argi + 1
    /\ UNCHANGED << env, ifile, call, writer, configuration, finished, pc, metadata, message_count, ofile, body,
                    nchunks, nloops, nmsgs, fault, trace, exit_status >>

\* Lines 339-353: after the last token, the missing required options are
\* reported, the run exits when _message_count > 0, and otherwise the
\* configuration is created and prepare() is called.
CheckMissing ==
    /\ pc = "args"
    /\ argi > Len(metadata)
    /\ \E required \in SUBSET DeclaredOptions :
       LET missing == GetMissing(options, required)
       IN  IF missing # << >>
           THEN /\ inspector' = _write_message(inspector, message_count, "ERROR",
                                    Text("A value is required", missing[1]))
                /\ ncalls' = ncalls + 1
                /\ herrors' = herrors + 1
           ELSE UNCHANGED << inspector, ncalls, herrors >>
    /\ IF message_count > 0
       THEN /\ exit_status' = 1
            /\ pc' = "done"
            /\ UNCHANGED trace
       ELSE /\ pc' = "prepare"
            /\ trace' = Append(trace, "prepare")
            /\ UNCHANGED exit_status
    /\ UNCHANGED << env, ifile, call, writer, configuration, finished, metadata, argi, fieldnames, options,
                    message_count, ofile, body, nchunks, nloops, nmsgs, fault >>

\* write_debug, write_error, write_fatal, write_info, write_warning called by
\* the variant from prepare, stream or generate (lines 405-422).
VariantWrite ==
    /\ pc \in {"prepare", "stream", "generate"}
    /\ nmsgs < MaxMsgs
    /\ \E sev \in VariantSeverities :
          inspector' = _write_message(inspector, message_count, sev,
                                      VariantText(nmsgs + 1))
    /\ nmsgs' = nmsgs + 1
    /\ ncalls' = ncalls + 1
    /\ UNCHANGED << env, ifile, call, writer, configuration, herrors, finished, pc, metadata, argi, fieldnames, options,
                    message_count, ofile, body, nchunks, nloops, fault, trace,
                    exit_status >>

\* A write_metric that also writes the buffered rows out as a chunk.
VariantMetricFlushing ==
    /\ pc \in {"prepare", "stream", "generate"}
    /\ nmsgs < MaxMsgs
    /\ \E name \in MetricNames :
          inspector' = write_metric(inspector, name, SearchMetric)
    /\ nmsgs' = nmsgs + 1
    /\ ofile' = _write_chunk(ofile, << <<"inspector", inspector'>> >>, body,
                             ~lenient).ofile
    /\ body' = << >>
    /\ UNCHANGED << env, ifile, call, writer, configuration, herrors, finished, pc, metadata, argi, fieldnames, options,
                    message_count, nchunks, nloops, ncalls, fault, trace,
                    exit_status >>

\* write_metric called by the variant from prepare, stream or generate
\* (lines 424-444).
VariantMetric ==
    /\ pc \in {"prepare", "stream", "generate"}
    /\ nmsgs < MaxMsgs
    /\ \E name \in MetricNames :
          inspector' = write_metric(inspector, name, SearchMetric)
    /\ nmsgs' = nmsgs + 1
    /\ UNCHANGED << env, ifile, call, writer, configuration, herrors, finished, pc, metadata, argi, fieldnames, options,
                    message_count, ofile, body, nchunks, nloops, ncalls, fault, trace,
                    exit_status >>

\* prepare() raises: the except clause of process takes over.
PrepareRaise ==
    /\ pc = "prepare"
    /\ ExceptClause("prepare")
    /\ UNCHANGED << env, ifile, call, writer, configuration, herrors, finished, metadata, argi, fieldnames, options,
                    message_count, ofile, body, nchunks, nloops, nmsgs, trace >>

\* Entering _execute without the configuration exchange.
ConfigureSkipped ==
    /\ pc = "prepare"
    /\ pc' = "loop"
    /\ UNCHANGED << env, ifile, call, writer, configuration, herrors, finished, metadata, argi, fieldnames, options,
                    message_count, inspector, ofile, body, nchunks, nloops,
                    nmsgs, ncalls, fault, trace, exit_status >>

\* Lines 355-363: prepare() has returned; the configuration chunk is written,
\* the inspector is cleared, a newline is written, _execute is entered.
Configure ==
    /\ pc = "prepare"
    /\ LET insp == IF options[<<"s">>] = <<"t">>
                   THEN _write_message(inspector, message_count, "INFO",
                                       Text("command configuration settings", << >>))
                   ELSE inspector
           md   == iteritems(configuration, kind) \o << <<"inspector", insp>> >>
           w    == _write_chunk(ofile, md, << >>, ~lenient)
       IN  IF w.raised
           THEN /\ ofile' = w.ofile
                /\ ExceptClause("write")
                /\ trace' = Append(trace, "write_failed")
           ELSE /\ ofile' = Append(w.ofile, WriteCall("newline", << "\n" >>))
                /\ inspector' = EmptyInspector
                /\ ncalls' = 0
                /\ pc' = "loop"
                /\ trace' = Append(trace, "write_config")
                /\ UNCHANGED << fault, exit_status >>
    /\ UNCHANGED << env, ifile, call, writer, configuration, herrors, finished, metadata, argi, fieldnames, options,
                    message_count, body, nchunks, nloops, nmsgs >>

\* ------------------------------------------- StreamingCommand._execute

\* Lines 89-100: the top of the loop.  A None result (end of input, or a
\* frame _read_chunk gives up on) breaks out of the loop, _execute and
\* process return and the process ends with status 0.
ReadChunk ==
    /\ pc = "loop"
    /\ kind = "streaming"
    /\ \E f \in ExecStreams :
       LET result == _read_chunk(f)
       IN  /\ ifile' = f
           /\ IF result.none
              THEN /\ pc' = "done"
                   /\ exit_status' = 0
                   /\ trace' = Append(trace, "read_none")
                   /\ UNCHANGED << body, nchunks >>
              ELSE /\ nchunks < MaxChunks
                   /\ nchunks' = nchunks + 1
                   /\ body' = << >>
                   /\ pc' = "stream"
                   /\ trace' = Append(trace, "read_chunk")
                   /\ UNCHANGED exit_status
    /\ UNCHANGED << env, call, writer, configuration, herrors, finished, metadata, argi, fieldnames, options,
                    message_count, inspector, ofile, nloops, nmsgs, ncalls, fault >>

\* The variant sets self.finished = True while it transforms the records.
StreamSignal ==
    /\ pc = "stream"
    /\ finished # "true"
    /\ finished' = "true"
    /\ UNCHANGED << env, ifile, call, writer, configuration, herrors, pc, metadata, argi, fieldnames, options, message_count,
                    inspector, ofile, body, nchunks, nloops, nmsgs, ncalls,
                    fault, trace, exit_status >>

\* Lines 107-113: stream() yields a record.  The key row goes to the output
\* buffer, then self._encode_value is looked up: no class defines it.
StreamYield ==
    /\ pc = "stream"
    /\ body' = Append(body, "keys")
    /\ ExceptClause("_encode_value")
    /\ UNCHANGED << env, ifile, call, writer, configuration, herrors, finished, metadata, argi, fieldnames, options,
                    message_count, ofile, nchunks, nloops, nmsgs, trace >>

\* stream() raises.
StreamRaise ==
    /\ pc = "stream"
    /\ ExceptClause("stream")
    /\ UNCHANGED << env, ifile, call, writer, configuration, herrors, finished, metadata, argi, fieldnames, options,
                    message_count, ofile, body, nchunks, nloops, nmsgs, trace >>

\* A return of stream() after which `finished` is written whatever its
\* value.
StreamReturnAlways ==
    /\ pc = "stream"
    /\ \/ /\ finished = "unset"
          /\ ExceptClause("finished")
          /\ UNCHANGED << finished, lenient, ofile, trace >>
       \/ \E raises \in (IF lenient THEN {FALSE} ELSE BOOLEAN) :
          LET fin == IF finished = "unset" THEN "false" ELSE finished
              md  == << <<"finished", IF fin = "true" THEN "True" ELSE "False">> >>
              w   == _write_chunk(ofile, md, body, raises)
          IN  /\ finished' = fin
              /\ lenient' = lenient
              /\ ofile' = w.ofile
              /\ IF w.raised
                 THEN /\ ExceptClause("write")
                      /\ trace' = Append(trace, "write_failed")
                 ELSE /\ pc' = "loop"
                      /\ trace' = Append(trace,
                             IF fin = "true" THEN "write_finished"
                                             ELSE "write_chunk")
                      /\ UNCHANGED << inspector, ncalls, fault, exit_status >>
    /\ UNCHANGED << kind, ifile, call, writer, configuration, herrors, metadata, argi, fieldnames, options,
                    message_count, body, nchunks, nloops, nmsgs >>

\* Lines 116-119: stream() is exhausted; self.finished is read and the chunk
\* is written.  No class of the package defines `finished`: when the variant
\* has not assigned it, either its class defines it as False or the read
\* raises AttributeError.  There is no break: the loop goes back to
\* _read_chunk.
StreamReturn ==
    /\ pc = "stream"
    /\ \/ /\ finished = "unset"
          /\ ExceptClause("finished")
          /\ UNCHANGED << finished, lenient, ofile, trace >>
       \/ \E raises \in (IF lenient THEN {FALSE} ELSE BOOLEAN) :
          LET fin == IF finished = "unset" THEN "false" ELSE finished
              md  == IF fin = "true" THEN << <<"finished", "True">> >> ELSE << >>
              w   == _write_chunk(ofile, md, body, raises)
          IN  /\ finished' = fin
              /\ lenient' = (lenient \/ (md = << >> /\ ~raises))
              /\ ofile' = w.ofile
              /\ IF w.raised
                 THEN /\ ExceptClause("write")
                      /\ trace' = Append(trace, "write_failed")
                 ELSE /\ pc' = "loop"
                      /\ trace' = Append(trace,
                             IF fin = "true" THEN "write_finished"
                                             ELSE "write_chunk")
                      /\ UNCHANGED << inspector, ncalls, fault, exit_status >>
    /\ UNCHANGED << kind, ifile, call, writer, configuration, herrors, metadata, argi, fieldnames, options,
                    message_count, body, nchunks, nloops, nmsgs >>

\* ------------------------------------------ GeneratingCommand._execute

\* Lines 94-102: the top of the `while True` loop; generate() is called.
GenerateStart ==
    /\ pc = "loop"
    /\ kind = "generating"
    /\ nloops < MaxLoops
    /\ nloops' = nloops + 1
    /\ body' = << >>
    /\ pc' = "generate"
    /\ trace' = Append(trace, "generate")
    /\ UNCHANGED << env, ifile, call, writer, configuration, herrors, finished, metadata, argi, fieldnames, options,
                    message_count, inspector, ofile, nchunks, nmsgs, ncalls,
                    fault, exit_status >>

\* generate() raises.
GenerateRaise ==
    /\ pc = "generate"
    /\ ExceptClause("generate")
    /\ UNCHANGED << env, ifile, call, writer, configuration, herrors, finished, metadata, argi, fieldnames, options,
                    message_count, ofile, body, nchunks, nloops, nmsgs, trace >>

\* Lines 102-108: generate() is exhausted after yielding some records, each
\* written to the output buffer; the chunk is written with metadata None.
\* There is no break: the loop starts over.
GenerateReturn ==
    /\ pc = "generate"
    /\ \E n \in 0..MaxRows, raises \in (IF lenient THEN {FALSE} ELSE BOOLEAN) :
       LET rows == [i \in 1..n |-> "row"]
           w    == _write_chunk(ofile, << >>, rows, raises)
       IN  /\ body' = rows
           /\ lenient' = ~raises
           /\ ofile' = w.ofile
           /\ IF w.raised
              THEN /\ ExceptClause("write")
                   /\ trace' = Append(trace, "write_failed")
              ELSE /\ pc' = "loop"
                   /\ trace' = Append(trace, "write_chunk")
                   /\ UNCHANGED << inspector, ncalls, fault, exit_status >>
    /\ UNCHANGED << kind, ifile, call, writer, configuration, herrors, finished, metadata, argi, fieldnames, options,
                    message_count, nchunks, nloops, nmsgs >>

Next ==
    \/ ReadHandshake
    \/ ProcessArg
    \/ CheckMissing
    \/ VariantWrite
    \/ VariantMetric
    \/ PrepareRaise
    \/ Configure
    \/ ReadChunk
    \/ StreamSignal
    \/ StreamYield
    \/ StreamRaise
    \/ StreamReturn
    \/ GenerateStart
    \/ GenerateRaise
    \/ GenerateReturn

Spec == Init /\ [][Next]_vars

TypeOK ==
    /\ pc \in {"start", "args", "prepare", "loop", "stream", "generate", "done"}
    /\ exit_status \in {Running, 0, 1}
    /\ (pc = "done") <=> (exit_status # Running)

\* ------------------------------------ the static methods called directly
\* One behaviour of Codec is one call of a static method of SearchCommand on
\* arguments drawn from the sets above.

process_vars ==
    << kind, lenient, finished, pc, metadata, argi, fieldnames, options,
       message_count, inspector, ofile, body, nchunks, nloops, nmsgs, ncalls,
       herrors, fault, trace, exit_status, ifile >>

\* What a reader finds on a stream after the calls f of one _write_chunk:
\* the header line as line 588 formats it, then the data of the writes that
\* followed.
RECURSIVE Written(_)
Written(f) ==
    IF Len(f) = 0 THEN << >>
    ELSE (IF Head(f).op = "write" THEN Head(f).data ELSE << >>)
             \o Written(Tail(f))

Wire(f) ==
    [raises |-> FALSE,
     line   |-> << HeaderLine(f[1].data.metadata_length, f[1].data.body_length) >>,
     rest   |-> Written(Tail(f))]

\* SearchCommand._read_chunk(f) on a stream.
Call_read_chunk ==
    /\ call = NoCall
    /\ \E f \in Streams :
          call' = [op |-> "_read_chunk", f |-> f, result |-> _read_chunk(f)]
    /\ UNCHANGED << process_vars, writer, configuration >>

\* SearchCommand._write_chunk(f, metadata, body) on an empty stream, then
\* _read_chunk on what it wrote.
Call_write_chunk ==
    /\ call = NoCall
    /\ \E md \in Metadatas, b \in Bodies, raises \in BOOLEAN :
          LET w == _write_chunk(<< >>, md, b, raises)
          IN  call' = [op |-> "_write_chunk", metadata |-> md, body |-> b,
                       raises |-> raises, f |-> w.ofile, raised |-> w.raised,
                       reread |-> _read_chunk(Wire(w.ofile))]
    /\ UNCHANGED << process_vars, writer, configuration >>

\* SearchCommand._encode_list(value), then _decode_list on its companion
\* text when it has one.
Call_encode_list ==
    /\ call = NoCall
    /\ \E value \in Lists :
          LET result == _encode_list(value)
          IN  call' = [op |-> "_encode_list", value |-> value, result |-> result,
                       decoded |-> IF result.mv.none THEN NoList
                                   ELSE _decode_list(result.mv.text)]
    /\ UNCHANGED << process_vars, writer, configuration >>

\* SearchCommand._decode_list(mv) on a text.
Call_decode_list ==
    /\ call = NoCall
    /\ \E mv \in Texts :
          call' = [op |-> "_decode_list", mv |-> mv, result |-> _decode_list(mv),
                   reads |-> DecodeReads(mv, 1, FALSE)]
    /\ UNCHANGED << process_vars, writer, configuration >>

\* One record written as StreamingCommand._execute writes it, then
\* _records on the two rows.
Call_records ==
    /\ call = NoCall
    /\ \E record \in Records :
          LET reader == EncodeRecord(record)
          IN  call' = [op |-> "_records", record |-> record, reader |-> reader,
                       result |-> _records(reader)]
    /\ UNCHANGED << process_vars, writer, configuration >>

\* SearchCommand._records(reader) on the rows of one chunk body.
Call_records_reader ==
    /\ call = NoCall
    /\ \E reader \in Readers :
          call' = [op |-> "_records_reader", reader |-> reader,
                   result |-> _records(reader)]
    /\ UNCHANGED << process_vars, writer, configuration >>

\* The rows StreamingCommand._execute writes to the output buffer of one
\* chunk for the records stream() yields.
Call_execute ==
    /\ call = NoCall
    /\ \E records \in Batches :
          call' = [op |-> "_execute", records |-> records,
                   rows |-> WriteRecords(records)]
    /\ UNCHANGED << process_vars, writer, configuration >>

CodecInit == Init /\ kind = "streaming"

CodecNext ==
    \/ Call_read_chunk
    \/ Call_write_chunk
    \/ Call_encode_list
    \/ Call_decode_list
    \/ Call_records
    \/ Call_records_reader
    \/ Call_execute

Codec == CodecInit /\ [][CodecNext]_vars

\* --------------------------------------- the RecordWriter called directly
\* One behaviour of Writer is one RecordWriter and the calls a test makes on
\* it (test_internals_v2.py, lines 156-219): `call` holds the last call, the
\* writer before it and whether it raised; writer.writes, writer.flushes
\* and writer.messages count the calls that returned, writer.written holds
\* the inspector keys written while the writer was open.

Open == writer.self.state = "open"

\* Line 156: writer = RecordWriter(StringIO(), maxresultrows=...).
Construct ==
    /\ writer.self.state = "none"
    /\ \E m \in 1..MaxResultRows :
          writer' = [writer EXCEPT !.self = RecordWriter(m)]
    /\ call' = [op |-> "RecordWriter", before |-> writer.self,
                raised |-> FALSE, finished |-> FALSE]
    /\ UNCHANGED << process_vars, configuration >>

\* Lines 165-169 and 218: writer.write_record(record).
Call_write_record ==
    /\ writer.self.state # "none"
    /\ Open => writer.writes < MaxWrites
    /\ LET r == write_record(writer.self, TestRecord(writer.writes))
       IN  /\ writer' = [writer EXCEPT
                           !.self = r.self,
                           !.writes = IF r.raised THEN @ ELSE @ + 1]
           /\ call' = [op |-> "write_record", before |-> writer.self,
                       raised |-> r.raised, finished |-> FALSE]
    /\ UNCHANGED << process_vars, configuration >>

\* Lines 186-187: writer.write_message(message_type, '{}', message_text).
Call_write_message ==
    /\ writer.self.state # "none"
    /\ writer.messages < MaxMsgs
    /\ \E sev \in VariantSeverities :
          LET r == write_message(writer.self, sev,
                                 VariantText(writer.messages + 1))
          IN  /\ writer' = [writer EXCEPT
                              !.self = r.self,
                              !.messages = @ + 1,
                              !.written = IF Open
                                          THEN @ \cup {<< "message",
                                                   writer.self.message_count,
                                                   sev >>}
                                          ELSE @]
              /\ call' = [op |-> "write_message", before |-> writer.self,
                          raised |-> r.raised, finished |-> FALSE]
    /\ UNCHANGED << process_vars, configuration >>

\* Lines 196-197: writer.write_metric(name, metric).
Call_write_metric ==
    /\ writer.self.state # "none"
    /\ \E name \in MetricNames :
          LET r == Writer_write_metric(writer.self, name, SearchMetric)
          IN  /\ writer' = [writer EXCEPT
                              !.self = r.self,
                              !.written = IF Open
                                          THEN @ \cup {<< "metric", name >>}
                                          ELSE @]
              /\ call' = [op |-> "write_metric", before |-> writer.self,
                          raised |-> r.raised, finished |-> FALSE]
    /\ UNCHANGED << process_vars, configuration >>

\* Lines 210 and 219: writer.flush(finished=...).
Call_flush ==
    /\ writer.self.state # "none"
    /\ Open => writer.flushes < MaxFlushes
    /\ \E fin \in BOOLEAN :
          LET r == flush(writer.self, fin)
          IN  /\ writer' = [writer EXCEPT
                              !.self = r.self,
                              !.flushes = IF r.raised THEN @ ELSE @ + 1]
              /\ call' = [op |-> "flush", before |-> writer.self,
                          raised |-> r.raised, finished |-> fin]
    /\ UNCHANGED << process_vars, configuration >>

WriterInit == Init /\ kind = "streaming"

WriterNext ==
    \/ Construct
    \/ Call_write_record
    \/ Call_write_message
    \/ Call_write_metric
    \/ Call_flush

Writer == WriterInit /\ [][WriterNext]_vars

\* ------------------------------- the ConfigurationSettings assigned directly
\* One assignment to a property of the settings object: the setter runs on
\* the value, and the call is recorded with the settings as they were.
Assign_finished ==
    /\ \E value \in PyValues :
          LET r == finished_setter(configuration, value)
          IN  /\ configuration' = r.self
              /\ call' = [op |-> "finished", value |-> value, raised |-> r.raised,
                          before |-> configuration]
    /\ UNCHANGED << process_vars, writer >>

Assign_partial ==
    /\ \E value \in PyValues :
          LET r == partial_setter(configuration, value)
          IN  /\ configuration' = r.self
              /\ call' = [op |-> "partial", value |-> value, raised |-> r.raised,
                          before |-> configuration]
    /\ UNCHANGED << process_vars, writer >>

Assign_stderr_dest ==
    /\ \E value \in PyValues :
          LET r == stderr_dest_setter(configuration, value)
          IN  /\ configuration' = r.self
              /\ call' = [op |-> "stderr_dest", value |-> value, raised |-> r.raised,
                          before |-> configuration]
    /\ UNCHANGED << process_vars, writer >>

SettingsInit == Init

SettingsNext ==
    \/ Assign_finished
    \/ Assign_partial
    \/ Assign_stderr_dest

Settings == SettingsInit /\ [][SettingsNext]_vars


\* ----------------------------------------------------- derived values

\* Complete chunks on ofile: _write_chunk ends each one with a flush.
CompleteChunks(f) == Cardinality({ i \in 1..Len(f) : f[i].op = "flush" })

\* The configuration chunk is the one followed by the newline of line 361.
ConfigWritten == \E i \in 1..Len(ofile) : ofile[i].part = "newline"

\* Execution chunks written completely.
ExecChunks == CompleteChunks(ofile) - (IF ConfigWritten THEN 1 ELSE 0)

Count(q, S) == Cardinality({ i \in 1..Len(q) : q[i] \in S })

IsBare(token) == \A i \in 1..Len(token) : token[i] # "="

IsBad(token) ==
    /\ ~IsBare(token)
    /\ token # <<"s", "=", "t">>

BareNames(tokens) == SelectSeq(tokens, IsBare)

BadCount(tokens) == Len(SelectSeq(tokens, IsBad))

Processed == SubSeq(metadata, 1, argi - 1)

\* The stream ended before any byte of a header.
AtEOF(f) == ~f.raises /\ f.line = << >>

\* The header grammar `chunked 1.0,<metaLen>,<bodyLen>` and a newline, the
\* two lengths being one decimal digit or more.
Grammar(header) ==
    /\ header.magic = << "chunked", " ", "1", ".", "0" >>
    /\ IsDigits(header.metadata_length)
    /\ IsDigits(header.body_length)
    /\ header.newline

\* The frame on the stream is malformed: its first line is not a header, or
\* fewer bytes follow the header than it declares.
Malformed(f) ==
    /\ ~f.raises
    /\ f.line # << >>
    /\ \/ ~Grammar(f.line[1])
       \/ Len(f.rest) < int(f.line[1].metadata_length) + int(f.line[1].body_length)

\* ------------------------------------------------------------------ C1
\* C1: when the handshake has recorded at least one error, the process
\* terminates with a non-zero status, writes no configuration chunk and never
\* enters the execution loop.
C1_HandshakeErrorExits ==
    (herrors > 0 /\ pc # "args")
        => (pc = "done" /\ exit_status = 1 /\ ofile = << >>)

\* ------------------------------------------------------------------ C2
\* C2: n messages written with no chunk emitted in between are n distinct
\* inspector entries with pairwise different sequence numbers; none is
\* overwritten.
C2_MessagesKeptApart ==
    LET messages == { k \in DOMAIN inspector : k[1] = "message" }
    IN  /\ Cardinality(messages) = ncalls
        /\ \A k1, k2 \in messages : k1 # k2 => k1[2] # k2[2]

ExecEvents ==
    {"read_chunk", "read_none", "generate", "write_chunk", "write_finished",
     "write_failed"}

C4_LifecycleOrder ==
    /\ \A i \in 1..Len(trace) :
          /\ i = 1 => trace[i] \in {"read_chunk", "read_none"}
          /\ i = 2 => trace[i] = "prepare" /\ trace[1] = "read_chunk"
          /\ i = 3 => trace[i] = "write_config"
          /\ i >= 4 => trace[i] \in ExecEvents
    /\ (ExecChunks > 0 \/ nchunks > 0 \/ nloops > 0) =>
          (Len(trace) >= 3 /\ ConfigWritten)
    /\ ConfigWritten <=> (Len(trace) >= 3)
    /\ exit_status = 0 =>
          (Len(trace) >= 4 /\ CompleteChunks(ofile) = ExecChunks + 1)

\* C4 witness: a streaming run that ended with status 0 after an execution
\* chunk was read and answered.
C4_Witness ==
    /\ exit_status = 0
    /\ nchunks = 1
    /\ ExecChunks = 1
    /\ trace = << "read_chunk", "prepare", "write_config", "read_chunk",
                  "write_finished", "read_none" >>

\* ------------------------------------------------------------------ C5
\* C5: a streaming command answers every input chunk it reads with exactly
\* one output chunk before it reads the next: whenever it is back at the top
\* of the loop or has ended, without a fault of the variant, it has written
\* as many execution chunks as it has read.
C5_StreamingAlternates ==
    (kind = "streaming" /\ pc \in {"loop", "done"} /\ fault \in {"none", "write"})
        => ExecChunks = nchunks

\* ------------------------------------------------------------------ C6
\* C6: a streaming command whose transform raises no fault ends with status
\* 0, having answered the last chunk, once the host has sent its chunks and
\* closed the input.
C6_StreamingEndsZero ==
    (kind = "streaming" /\ pc = "done" /\ ConfigWritten
        /\ fault \in {"none", "write"})
        => (exit_status = 0 /\ ExecChunks = nchunks)

\* ------------------------------------------------------------------ C7
\* C7: once a chunk carrying finished: true has been written the loop is
\* over: no input chunk is read after it.
C7_FinishedStopsLoop ==
    \A i, j \in 1..Len(trace) :
        (i < j /\ trace[i] = "write_finished") => trace[j] # "read_chunk"

\* ------------------------------------------------------------------ C8
\* C8: a generating command reads no input during execution and runs its
\* loop once: one call of generate, one execution chunk with the generated
\* body, then the end.
C8_GeneratingOnce ==
    (kind = "generating" /\ fault \in {"none", "write"}) =>
        /\ nchunks = 0
        /\ nloops <= 1
        /\ (pc = "done" /\ nloops = 1) => ExecChunks = 1

\* ------------------------------------------------------------------ C9
\* C9: a fault raised by the variant during execution (in stream or generate,
\* or while its records are encoded) ends in the except clause of process:
\* one ERROR entry holding the fault message, exit status 1, never 0.
VariantFaults == {"stream", "generate", "_encode_value"}

C9_FaultCaught ==
    fault \in VariantFaults =>
        /\ pc = "done"
        /\ exit_status = 1
        /\ << "message", message_count, "ERROR" >> \in DOMAIN inspector
        /\ inspector[<< "message", message_count, "ERROR" >>] = FaultText
        /\ Cardinality({ k \in DOMAIN inspector :
                             k[1] = "message" /\ k[3] = "ERROR" }) = 1

\* C9 witness: stream() raised on the second chunk, after a first chunk was
\* answered.
C9_Witness ==
    /\ fault = "stream"
    /\ nchunks = 2
    /\ ExecChunks = 1
    /\ exit_status = 1

\* ----------------------------------------------------------------- C10
\* C10: when the process ends with a non-zero status after recording error
\* messages (errors of the handshake, or a fault of the variant during
\* execution), every recorded message has been written out in the metadata of
\* some chunk: none is left in the inspector only.
C10_MessagesEmitted ==
    (exit_status = 1
        /\ ((herrors > 0 /\ fault = "none") \/ fault \in VariantFaults))
        => Cardinality(DOMAIN inspector) = 0

\* ----------------------------------------------------------------- C11
\* C11: when the first read finds no handshake chunk (the input is at its
\* end, the first frame is malformed, or the input cannot be read), the
\* process has ended with a non-zero status and nothing at all has been
\* written to ofile.
C11_NoHandshakeNoOutput ==
    (Len(trace) = 1 /\ (AtEOF(ifile) \/ Malformed(ifile) \/ ifile.raises))
        => (pc = "done" /\ exit_status = 1 /\ ofile = << >>)

\* C11 witness: the first line on ifile was not a header.
C11_Witness ==
    /\ trace = << "read_none" >>
    /\ ifile = JunkHeader
    /\ exit_status = 1
    /\ ofile = << >>

\* ----------------------------------------------------------------- C12
\* C12: when the frame a streaming command finds at the top of its loop is
\* malformed or truncated, the process ends with a non-zero status; it is
\* never taken for the clean end of the input (status 0).
C12_MalformedFrameFails ==
    (kind = "streaming" /\ Len(trace) >= 4 /\ Malformed(ifile))
        => (pc = "done" /\ exit_status = 1)

\* ----------------------------------------------------------------- C13
\* C13: _read_chunk never returns a chunk from a stream that holds fewer
\* bytes than its header declares: the body of a returned chunk has the
\* declared length and the metadata was parsed from the declared number of
\* bytes.
C13_ShortReadFails ==
    (call.op = "_read_chunk" /\ ~call.result.none) =>
        LET header == call.f.line[1]
        IN  /\ Len(call.result.body) = int(Group(header.body_length))
            /\ Len(call.f.rest) >= int(Group(header.metadata_length))
                                     + int(Group(header.body_length))

\* ----------------------------------------------------------------- C14
\* C14: _read_chunk returns None exactly when the stream is at its end
\* before any byte of a header; a complete frame whose header declares a
\* metadata length of 0 is returned as a chunk.
C14_NoneOnlyAtEOF ==
    call.op = "_read_chunk" =>
        /\ call.result.none <=> AtEOF(call.f)
        /\ (\E b \in Bodies : call.f = BodyOnly(b)) => ~call.result.none

\* ----------------------------------------------------------------- C15
\* Equality of two mappings as Python compares a dict with an OrderedDict:
\* the same keys with the same values, in whatever order.
SameMapping(a, b) ==
    /\ Len(a) = Len(b)
    /\ \A i \in 1..Len(a) : \E j \in 1..Len(b) : a[i] = b[j]
    /\ \A j \in 1..Len(b) : \E i \in 1..Len(a) : a[i] = b[j]

\* C15: for a non-empty metadata mapping and any body, _read_chunk on what
\* _write_chunk wrote returns the same metadata and the same body, and the
\* two lengths of the written header are the lengths of the metadata text
\* and of the body that were written after it.
C15_ChunkRoundTrip ==
    (call.op = "_write_chunk" /\ call.metadata # << >>) =>
        /\ ~call.raised
        /\ ~call.reread.none
        /\ SameMapping(call.reread.metadata, call.metadata)
        /\ call.reread.body = call.body
        /\ Len(call.f) = 4
        /\ call.f[1].data.metadata_length = Len(call.f[2].data)
        /\ call.f[1].data.body_length = Len(call.f[3].data)
        /\ call.f[3].data = call.body
        /\ Wire(call.f).line[1].metadata_length = Str(Len(call.f[2].data))
        /\ Wire(call.f).line[1].body_length = Str(Len(call.body))

\* C15 witness: a mapping of two entries and a body of two bytes were written
\* and read back.
C15_Witness ==
    /\ call.op = "_write_chunk"
    /\ Len(call.metadata) = 2
    /\ Len(call.body) = 2
    /\ ~call.reread.none
    /\ SameMapping(call.reread.metadata, call.metadata)
    /\ call.reread.body = call.body

\* ----------------------------------------------------------------- C16
\* C16: _write_chunk with absent or empty metadata completes without error:
\* it writes the header with metadata length 0 and the length of the body,
\* no metadata bytes, the whole body, and flushes.
C16_AbsentMetadataWritten ==
    (call.op = "_write_chunk" /\ call.metadata = << >>) =>
        /\ ~call.raised
        /\ call.f = << WriteCall("header", [metadata_length |-> 0,
                                             body_length |-> Len(call.body)]),
                       WriteCall("body", call.body), FlushCall >>

\* ----------------------------------------------------------------- C17
\* C17: between two calls of _write_chunk, what has been written to ofile is
\* a concatenation of complete chunks: a header, the metadata of the declared
\* length, the body of the declared length; nothing lies outside a chunk.
RECURSIVE Framed(_)
Framed(f) ==
    IF Len(f) = 0 THEN TRUE
    ELSE /\ f[1].part = "header"
         /\ LET header == f[1].data
                k      == IF header.metadata_length > 0 THEN 1 ELSE 0
            IN  /\ Len(f) >= k + 3
                /\ k = 1 => /\ f[2].part = "metadata"
                            /\ Len(f[2].data) = header.metadata_length
                /\ f[k + 2].part = "body"
                /\ Len(f[k + 2].data) = header.body_length
                /\ f[k + 3].op = "flush"
                /\ Framed(SubSeq(f, k + 4, Len(f)))

C17_OnlyCompleteChunks == Framed(ofile)

\* ----------------------------------------------------------------- C18
\* C18: for a list of two strings or more, _encode_list returns as base text
\* the items joined by a newline and as companion text the items, each between
\* two `$` with every `$` of the item doubled, separated by one `;`.
C18_CompanionWrapsItems ==
    (call.op = "_encode_list" /\ Len(call.value) >= 2) =>
        /\ call.result.base = SomeText(Lines(call.value))
        /\ call.result.mv = SomeText(Wrapped(call.value))

\* ----------------------------------------------------------------- C19
\* C19: for a list v of two strings or more over an alphabet with `$` and
\* `;`, _decode_list of the companion text of _encode_list(v) is v.
C19_ListRoundTrip ==
    (call.op = "_encode_list" /\ Len(call.value) >= 2) =>
        call.decoded = SomeList(call.value)

\* ----------------------------------------------------------------- C20
\* C20: _decode_list of a text in which an element opened by `$` is not
\* closed before the end of the text is None, never the list of the elements
\* closed before it.
\* Scan reads a text by the grammar of companion texts: "sep" where an
\* element must open, "in" inside an element, "closed" after one.
RECURSIVE Scan(_, _, _)
Scan(t, i, q) ==
    IF i > Len(t) THEN q
    ELSE IF q = "sep"
    THEN IF t[i] = "$" THEN Scan(t, i + 1, "in") ELSE "bad"
    ELSE IF q = "in"
    THEN IF t[i] # "$" THEN Scan(t, i + 1, "in")
         ELSE IF i + 1 <= Len(t) /\ t[i + 1] = "$" THEN Scan(t, i + 2, "in")
         ELSE Scan(t, i + 1, "closed")
    ELSE IF q = "closed" /\ t[i] = ";" THEN Scan(t, i + 1, "sep")
    ELSE "bad"

Unclosed(mv) == Scan(mv, 1, "sep") = "in"

C20_UnclosedIsNone ==
    (call.op = "_decode_list" /\ Unclosed(call.mv)) => call.result.none

\* ----------------------------------------------------------------- C21
\* C21: a record of scalars and non-empty lists, written as a row with base
\* and companion columns and read back with _records, is the record it was:
\* the same field names with the same values, a list restored from its
\* companion column; an empty list comes back absent.
RoundTripped(record) ==
    [i \in 1..Len(record) |->
        << record[i][1],
           IF record[i][2] = List(<< >>) THEN Absent ELSE record[i][2] >>]

C21_RecordRoundTrip ==
    call.op = "_records" =>
        /\ ~call.result.raised
        /\ call.result.records = << RoundTripped(call.record) >>

\* ----------------------------------------------------------------- C22
\* C22: within one chunk every row of values has the columns of the row of
\* keys, in its order: the cell of a base column holds the value the record
\* has for that field, the empty text when the record lacks the field, and a
\* field that is no column is dropped; no row has another number of cells
\* than the row of keys.
Field(record, name) ==
    IF \E i \in 1..Len(record) : record[i][1].name = name
    THEN LET i == CHOOSE j \in 1..Len(record) : record[j][1].name = name
         IN  record[i][2].items[1]
    ELSE << >>

C22_FixedColumns ==
    (call.op = "_execute" /\ Len(call.rows) > 0) =>
        LET keys == call.rows[1]
        IN  \A k \in 1..Len(call.records) :
               /\ Len(call.rows[k + 1]) = Len(keys)
               /\ \A c \in 1..Len(keys) :
                     ~keys[c].mv =>
                         call.rows[k + 1][c] = Field(call.records[k], keys[c].name)

\* ----------------------------------------------------------------- C23
\* C23: the configuration chunk of a streaming command that sets no
\* configuration value declares distributed true, generating false, and
\* maxinputs, required_fields and run_in_preview null.
\* The configuration chunk is the first on ofile: its header, then its
\* metadata.
HasSetting(key, value) ==
    /\ Len(ofile) >= 2
    /\ ofile[2].part = "metadata"
    /\ \E i \in 1..Len(ofile[2].data) :
          /\ ofile[2].data[i].ch = "entry"
          /\ ofile[2].data[i].of[1] = key
          /\ ofile[2].data[i].of[2] = value

C23_StreamingDefaults ==
    (kind = "streaming" /\ ConfigWritten) =>
        /\ HasSetting("distributed", "True")
        /\ HasSetting("generating", "False")
        /\ HasSetting("maxinputs", "None")
        /\ HasSetting("required_fields", "None")
        /\ HasSetting("run_in_preview", "None")

\* ----------------------------------------------------------------- C24
\* C24: the metadata of the configuration chunk has a `type` key whose value
\* is the name of the variant, 'streaming' or 'generating', and an
\* `inspector` key.
C24_TypeAndInspector ==
    ConfigWritten =>
        /\ HasSetting("type", kind)
        /\ \E i \in 1..Len(ofile[2].data) :
              /\ ofile[2].data[i].ch = "entry"
              /\ ofile[2].data[i].of[1] = "inspector"

\* ----------------------------------------------------------------- C25
\* The inspector as the metadata of the write call w embeds it: every entry
\* of insp stands under the key 'inspector'.
Embeds(w, insp) ==
    /\ w.part = "metadata"
    /\ \E i \in 1..Len(w.data) :
          /\ w.data[i].ch = "entry"
          /\ w.data[i].of[1] = "inspector"
          /\ \A k \in DOMAIN insp :
                k \in DOMAIN w.data[i].of[2] /\ w.data[i].of[2][k] = insp[k]

\* C25: the inspector only grows between chunk emissions: a step keeps every
\* key of the inspector, and every message under its key, unless it is the
\* clear that follows a completed write of a chunk whose metadata embedded
\* every entry the inspector held; no message or metric write, no read, no
\* step of the variant and no failed write removes an entry.
C25_InspectorOnlyGrows ==
    [][ \/ \A k \in DOMAIN inspector :
              /\ k \in DOMAIN inspector'
              /\ k[1] = "message" => inspector'[k] = inspector[k]
        \/ /\ inspector' = EmptyInspector
           /\ Len(ofile') = Len(ofile) + 5
           /\ SubSeq(ofile', 1, Len(ofile)) = ofile
           /\ Embeds(ofile'[Len(ofile) + 2], inspector)
           /\ ofile'[Len(ofile) + 4] = FlushCall ]_vars

\* ----------------------------------------------------------------- C26
\* C26: write_debug, write_error, write_fatal, write_info, write_warning and
\* write_metric never flush: a call by the variant changes the inspector and
\* nothing else; the calls made on ofile, the rows in the output buffer and
\* their number, the chunks written and read and the position of the process
\* stay as they were.
C26_WritesNeverFlush ==
    [][ nmsgs' # nmsgs =>
          /\ ofile' = ofile
          /\ body' = body
          /\ CompleteChunks(ofile') = CompleteChunks(ofile)
          /\ UNCHANGED << pc, nchunks, nloops, trace, fault, exit_status,
                          message_count, finished >> ]_vars

\* C26 witness: a metric was written inside generate(), after the
\* configuration chunk and nothing else had gone to ofile.
C26_Witness ==
    /\ ConfigWritten
    /\ pc = "generate"
    /\ CompleteChunks(ofile) = 1
    /\ nmsgs = 1
    /\ << "metric", "x" >> \in DOMAIN inspector

\* ----------------------------------------------------------------- C27
\* C27: with row threshold m, after n write_record calls that returned and
\* no flush call, floor(n/m) chunks have been written, each with m rows and
\* `finished` unset, n mod m rows are buffered and m * floor(n/m) rows are
\* counted as flushed; when flush(finished=True) is then the only flush
\* call, one more chunk holds the n mod m remaining rows and all n rows are
\* counted as flushed.
C27_ChunksOfThreshold ==
    LET w    == writer.self
        m    == w.maxresultrows
        n    == writer.writes
        full == n \div m
    IN  w.state # "none" =>
          /\ writer.flushes = 0 =>
                /\ w.chunk_count = full
                /\ Len(w.ofile) = full
                /\ \A i \in 1..full : /\ Len(w.ofile[i].rows) = m
                                      /\ w.ofile[i].finished = "unset"
                /\ w.record_count = n % m
                /\ Len(w.buffer) = n % m
                /\ w.total_record_count = m * full
          /\ (writer.flushes = 1 /\ w.state = "closed") =>
                /\ w.chunk_count = full + 1
                /\ Len(w.ofile) = full + 1
                /\ \A i \in 1..full : /\ Len(w.ofile[i].rows) = m
                                      /\ w.ofile[i].finished = "unset"
                /\ Len(w.ofile[full + 1].rows) = n % m
                /\ w.ofile[full + 1].finished = "true"
                /\ w.record_count = 0
                /\ w.total_record_count = n

\* C27 witness: threshold 2 and five records, then flush(finished=True):
\* three chunks with 2, 2 and 1 rows.
C27_Witness ==
    /\ writer.self.state = "closed"
    /\ writer.self.maxresultrows = 2
    /\ writer.writes = 5
    /\ writer.flushes = 1
    /\ writer.self.chunk_count = 3
    /\ Len(writer.self.ofile[3].rows) = 1

\* ----------------------------------------------------------------- C28
\* C28: flush(finished=True) leaves the writer Closed, and every write_record
\* or flush call made on a Closed writer raises RuntimeError and leaves the
\* writer as it was: no chunk is written, the stream and the chunk count are
\* unchanged.
C28_ClosedRaises ==
    /\ (call.op = "flush" /\ ~call.raised /\ call.finished) =>
          writer.self.state = "closed"
    /\ (call.op \in {"write_record", "flush"} /\ call.before.state = "closed") =>
          /\ call.raised
          /\ writer.self.state = "closed"
          /\ writer.self.ofile = call.before.ofile
          /\ writer.self.chunk_count = call.before.chunk_count
          /\ writer.self = call.before

\* C28 witness: a flush call raised on a writer that was closed after it
\* had written a chunk with rows.
C28_Witness ==
    /\ call.op = "flush"
    /\ call.raised
    /\ call.before.state = "closed"
    /\ writer.self.chunk_count = 2
    /\ writer.writes = 3

\* ----------------------------------------------------------------- C29
\* C29: right after a flush call has returned, with finished true or false,
\* the buffered row count is 0, the row buffer is empty, the fixed columns
\* are unset, the inspector is empty and the output stream is not closed.
C29_FlushLeavesNothing ==
    (call.op = "flush" /\ ~call.raised) =>
        /\ writer.self.record_count = 0
        /\ writer.self.buffer = << >>
        /\ writer.self.fieldnames = NoList
        /\ writer.self.inspector = EmptyInspector
        /\ ~writer.self.closed

\* C29 witness: a flush(finished=False) returned on a writer that held a
\* row, its fixed columns, a message and a metric.
C29_Witness ==
    /\ call.op = "flush"
    /\ ~call.raised
    /\ ~call.finished
    /\ call.before.record_count = 1
    /\ ~call.before.fieldnames.none
    /\ Cardinality(DOMAIN call.before.inspector) = 2

\* ----------------------------------------------------------------- C30
\* Chunks of the writer whose metadata holds the inspector key k.
Embedding(k) ==
    { i \in 1..Len(writer.self.ofile) :
        k \in DOMAIN writer.self.ofile[i].inspector }

C31_MetadataRoundTrip ==
    (call.op = "_read_chunk" /\ ~call.result.none) =>
        JsonDumps(call.result.metadata)
            = Read(call.f.rest, int(Group(call.f.line[1].metadata_length)))

\* ----------------------------------------------------------------- C32
\* C32: _encode_list of a list of one string returns the string as the base
\* value and no companion value (None); _encode_list of the empty list
\* returns no base value and no companion value.
C32_ShortLists ==
    call.op = "_encode_list" =>
        /\ Len(call.value) = 1 =>
              /\ call.result.base = SomeText(call.value[1])
              /\ call.result.mv = NoText
        /\ Len(call.value) = 0 =>
              /\ call.result.base = NoText
              /\ call.result.mv = NoText

\* C32 witness: the single item holds a `$`, which is returned as it is.
C32_Witness ==
    /\ call.op = "_encode_list"
    /\ call.value = << << "a", "$" >> >>
    /\ call.result.base = SomeText(<< "a", "$" >>)
    /\ call.result.mv.none

\* ----------------------------------------------------------------- C33
\* C33: _read_chunk returns a chunk only when the header line is exactly
\* `chunked 1.0,<metaLen>,<bodyLen>` and a newline, with two lengths of
\* decimal digits: a line with another version tag, with whitespace added
\* around the version or the commas, or with any other deviation gives no
\* chunk.
C33_HeaderGrammar ==
    (call.op = "_read_chunk" /\ ~call.result.none) => Grammar(call.f.line[1])

\* ----------------------------------------------------------------- C34
\* The headers of the execution chunks on ofile: those after the newline
\* that follows the configuration chunk.
ExecHeaders ==
    { i \in 1..Len(ofile) :
        /\ ofile[i].part = "header"
        /\ \E j \in 1..(i - 1) : ofile[j].part = "newline" }

\* C34: an execution chunk of a streaming command carries either the
\* metadata {"finished": true} or no metadata at all, its header then
\* declaring the metadata length 0; `finished` is never written with another
\* value, and while the command is not finished no execution chunk carries
\* metadata.
C34_FinishedOnlyTrue ==
    kind = "streaming" =>
        \A i \in ExecHeaders :
            /\ IF i < Len(ofile) /\ ofile[i + 1].part = "metadata"
               THEN /\ ofile[i + 1].data = JsonDumps(<< <<"finished", "True">> >>)
                    /\ ofile[i].data.metadata_length = Len(ofile[i + 1].data)
               ELSE ofile[i].data.metadata_length = 0
            /\ finished # "true" => ofile[i].data.metadata_length = 0

\* C34 witness: a chunk without metadata was written while the command was
\* not finished, and a chunk with {"finished": true} after it.
C34_Witness ==
    /\ kind = "streaming"
    /\ \E i, j \in ExecHeaders :
          /\ i < j
          /\ ofile[i].data.metadata_length = 0
          /\ ofile[i + 1].part = "body"
          /\ j < Len(ofile)
          /\ ofile[j + 1].part = "metadata"
          /\ ofile[j + 1].data = JsonDumps(<< <<"finished", "True">> >>)

\* ----------------------------------------------------------------- C35
\* C35: _records yields one record per data row, in row order, none for a
\* body without rows and never the row of column names; every record has
\* every base column of the header as a key.  Without a companion column a
\* record maps the column names to the cells of its row in header order;
\* with a companion column a record is non-empty and its keys are base
\* names.
HasKey(record, column) == \E p \in 1..Len(record) : record[p][1] = column

C35_OneRecordPerRow ==
    call.op = "_records_reader" =>
        LET reader  == call.reader
            records == call.result.records
        IN  /\ ~call.result.raised
            /\ Len(reader) = 0 => Len(records) = 0
            /\ Len(reader) > 0 =>
                  LET names == Head(reader)
                      rows       == Tail(reader)
                      plain      == \A i \in 1..Len(names) : ~names[i].mv
                  IN  /\ Len(records) = Len(rows)
                      /\ \A k \in 1..Len(records) :
                            /\ \A i \in 1..Len(names) :
                                  ~names[i].mv => HasKey(records[k], names[i])
                            /\ plain =>
                                  records[k] = [i \in 1..Len(names) |->
                                                  << names[i], Scalar(rows[k][i]) >>]
                            /\ ~plain =>
                                  /\ Len(records[k]) > 0
                                  /\ \A p \in 1..Len(records[k]) : ~records[k][p][1].mv

\* ----------------------------------------------------------------- C36
\* The entries of iteritems under other keys than the one given.
Others(items, key) ==
    [i \in { j \in 1..Len(items) : items[j][1] # key } |-> items[i]]

\* C36: after a boolean was assigned to partial, partial reads as that
\* value, and finished, stderr_dest and every other entry of iteritems read
\* as they did before the assignment.
C36_PartialOnlyPartial ==
    (call.op = "partial" /\ IsBool(call.value)) =>
        /\ ~call.raised
        /\ get_partial(configuration) = call.value
        /\ get_finished(configuration) = get_finished(call.before)
        /\ get_stderr_dest(configuration) = get_stderr_dest(call.before)
        /\ Others(iteritems(configuration, kind), "partial")
              = Others(iteritems(call.before, kind), "partial")

\* ----------------------------------------------------------------- C37
\* C37: whatever was assigned to finished, partial and stderr_dest, accepted
\* or rejected, stderr_dest reads as 'log' or 'none', and so does the entry
\* of iteritems the configuration chunk is written from.
C37_StderrDestLogOrNone ==
    /\ get_stderr_dest(configuration) \in {"log", "none"}
    /\ \A i \in 1..Len(iteritems(configuration, kind)) :
          iteritems(configuration, kind)[i][1] = "stderr_dest"
              => iteritems(configuration, kind)[i][2] \in {"log", "none"}

\* ----------------------------------------------------------------- C39
\* An assignment the setter has to reject: a value that is no boolean for
\* finished or partial, a value other than 'log' and 'none' for stderr_dest.
Illegal(op, value) ==
    IF op = "stderr_dest" THEN value \notin {"log", "none"} ELSE ~IsBool(value)

\* C39: an illegal assignment raises ValueError, and every setting reads
\* afterwards as it did before.
C39_RejectedChangesNothing ==
    (call.op \in {"finished", "partial", "stderr_dest"}
        /\ Illegal(call.op, call.value)) =>
        /\ call.raised
        /\ configuration = call.before
        /\ iteritems(configuration, kind) = iteritems(call.before, kind)

\* C39 witness: after stderr_dest was set to 'none' and finished to True, a
\* number assigned to finished was rejected.
C39_Witness ==
    /\ call.op = "finished"
    /\ call.value = "1"
    /\ call.raised
    /\ get_stderr_dest(configuration) = "none"
    /\ get_finished(configuration) = "True"

\* ----------------------------------------------------------------- C38
\* The iterations of the loop: the subscriptions of the current character.
Iterations(reads) == SelectSeq(reads, LAMBDA r : ~r.ahead)

\* A character other than `$` and `;` stands outside an element: an element
\* opens at a `$`, holds `$$` for a `$`, and closes at the next single `$`.
RECURSIVE Stray(_, _, _)
Stray(t, i, inside) ==
    IF i > Len(t) THEN FALSE
    ELSE IF ~inside
    THEN IF t[i] = "$" THEN Stray(t, i + 1, TRUE)
         ELSE IF t[i] = ";" THEN Stray(t, i + 1, FALSE)
         ELSE TRUE
    ELSE IF t[i] # "$" THEN Stray(t, i + 1, TRUE)
         ELSE IF i + 1 <= Len(t) /\ t[i + 1] = "$" THEN Stray(t, i + 2, TRUE)
         ELSE Stray(t, i + 1, FALSE)

====
